---- MODULE Spec2Model ----
(***************************************************************************)
(* Parameter containers of burn (src/module/param.rs) and the Module       *)
(* implementation derived for a structure (burn-derive/src/lib.rs).        *)
(*                                                                         *)
(* A Param<T> owns one value of one of four shapes: a tensor, an optional  *)
(* tensor, a module, or a Vec of modules.  Values are modelled as records  *)
(*   [kind |-> "tensor", value |-> t]                                      *)
(*   [kind |-> "option", value |-> None or Some(t)]                        *)
(*   [kind |-> "module", value |-> m]                                      *)
(*   [kind |-> "vec",    value |-> VecOf(<<m1, ..., mn>>)]                 *)
(* and a module (a structure deriving Module) as                           *)
(*   [kind |-> "struct", fields |-> << [name |-> f, param |-> p], ... >>]  *)
(* with the fields in declaration order.                                   *)
(***************************************************************************)
EXTENDS Integers, Sequences, FiniteSets, TLC

VARIABLES c,     \* the container the calls act on
          last,  \* the most recent call: operation, argument, receiver before it
          ret    \* value returned by the most recent read call, kept by the caller

vars == <<c, last, ret>>

-----------------------------------------------------------------------------
(* Bounds *)

MaxVecLen == 2
MaxDim == 2

ElemVals == {0, 1}
NumVals == Cardinality(ElemVals)
Gradients == {1}
Devices == {"cpu", "cuda"}
DefaultDevice == "cpu"

-----------------------------------------------------------------------------
(* Tensor collaborator: shape, element count, device, data conversion *)

NumElements(shape) ==
    LET prod[i \in 0..Len(shape)] ==
            IF i = 0 THEN 1 ELSE prod[i - 1] * shape[i]
    IN  prod[Len(shape)]

Ramp(shape, v) == [i \in 1..NumElements(shape) |-> (v + i) % NumVals]

ToData(t) == [value |-> t.value, shape |-> t.shape]

Serialize(data) == [value |-> data.value, shape |-> data.shape]

DataFrom(ser, rank) ==
    [value |-> ser.value, shape |-> [i \in 1..rank |-> ser.shape[i]]]

FromDataDevice(data, device, backend) ==
    [shape |-> data.shape, value |-> data.value,
     device |-> device, backend |-> backend]

TensorToDevice(t, device) == [t EXCEPT !.device = device]

TensorInner(t) == [t EXCEPT !.backend = "inner"]

(* Optimizer collaborator: one update of one tensor with the full gradients *)
OptimUpdate(t, grads, opt) ==
    [tensor |-> [t EXCEPT !.value = [i \in DOMAIN @ |-> (@[i] + grads) % NumVals]],
     optim  |-> [log |-> Append(opt.log, [tensor |-> t, grads |-> grads])]]

-----------------------------------------------------------------------------
(* State tree *)

StateData(ser) == [kind |-> "data", data |-> ser]

StateNamedNew == [kind |-> "named", values |-> <<>>]

RegisterState(state, key, s) ==
    [state EXCEPT !.values =
        [k \in (DOMAIN @) \cup {key} |-> IF k = key THEN s ELSE @[k]]]

StateGet(state, key) ==
    IF state.kind = "named" /\ key \in DOMAIN state.values
    THEN state.values[key]
    ELSE StateNamedNew

ModKey(i) == "mod-" \o ToString(i)

-----------------------------------------------------------------------------
(* Held values: Option<T> and Vec<M> *)

None == [opt |-> <<>>]

Some(t) == [opt |-> <<t>>]

IsSome(o) == o.opt # <<>>

Unwrap(o) == o.opt[1]

VecOf(mods) == [vec |-> mods]

-----------------------------------------------------------------------------
(* The five operations and inner(), per container shape *)

RECURSIVE NumParams(_), Devices_(_), ToDevice(_, _), StateOf(_), Load(_, _),
          UpdateParams(_, _, _), Inner(_)

(* Structure deriving Module: every operation aggregates over the fields *)
DeriveNumParams(m) ==
    LET sum[j \in 0..Len(m.fields)] ==
            IF j = 0 THEN 0 ELSE sum[j - 1] + NumParams(m.fields[j].param)
    IN  sum[Len(m.fields)]

DeriveDevices(m) ==
    LET acc[j \in 0..Len(m.fields)] ==
            IF j = 0 THEN <<>> ELSE acc[j - 1] \o Devices_(m.fields[j].param)
    IN  acc[Len(m.fields)]

DeriveToDevice(m, device) ==
    [m EXCEPT !.fields =
        [j \in DOMAIN @ |-> [@[j] EXCEPT !.param = ToDevice(@, device)]]]

DeriveState(m) ==
    LET acc[j \in 0..Len(m.fields)] ==
            IF j = 0 THEN StateNamedNew
            ELSE RegisterState(acc[j - 1], m.fields[j].name,
                               StateOf(m.fields[j].param))
    IN  acc[Len(m.fields)]

DeriveLoad(m, state) ==
    [m EXCEPT !.fields =
        [j \in DOMAIN @ |->
            [@[j] EXCEPT !.param = Load(@, StateGet(state, m.fields[j].name))]]]

DeriveUpdateParams(m, grads, opt) ==
    LET st[j \in 0..Len(m.fields)] ==
            IF j = 0 THEN [fields |-> <<>>, optim |-> opt]
            ELSE LET r == UpdateParams(m.fields[j].param, grads, st[j - 1].optim)
                 IN  [fields |-> Append(st[j - 1].fields,
                                        [m.fields[j] EXCEPT !.param = r.value]),
                      optim  |-> r.optim]
    IN  [value |-> [m EXCEPT !.fields = st[Len(m.fields)].fields],
         optim |-> st[Len(m.fields)].optim]

DeriveInner(m) ==
    [m EXCEPT !.fields =
        [j \in DOMAIN @ |-> [@[j] EXCEPT !.param = Inner(@)]]]

(* Param<Tensor<B, D>> *)
TensorNumParams(p) == NumElements(p.value.shape)

TensorUpdateParams(p, grads, opt) ==
    LET r == OptimUpdate(p.value, grads, opt)
    IN  [value |-> [p EXCEPT !.value = r.tensor], optim |-> r.optim]

TensorDevices(p) == <<p.value.device>>

TensorParamToDevice(p, device) ==
    [p EXCEPT !.value = TensorToDevice(@, device)]

TensorState(p) == StateData(Serialize(ToData(p.value)))

\* Variant: the Data arm does nothing
TensorLoadIgnored(p, state) == p

TensorLoad(p, state) ==
    IF state.kind = "data"
    THEN [p EXCEPT !.value =
            FromDataDevice(DataFrom(state.data, Len(p.value.shape)),
                           p.value.device, p.value.backend)]
    ELSE p

TensorParamInner(p) == [p EXCEPT !.value = TensorInner(@)]

(* Param<Option<Tensor<B, D>>> *)
OptionNumParams(p) ==
    IF IsSome(p.value) THEN NumElements(Unwrap(p.value).shape) ELSE 0

OptionUpdateParams(p, grads, opt) ==
    IF IsSome(p.value)
    THEN LET r == OptimUpdate(Unwrap(p.value), grads, opt)
         IN  [value |-> [p EXCEPT !.value = Some(r.tensor)], optim |-> r.optim]
    ELSE [value |-> p, optim |-> opt]

OptionDevices(p) ==
    IF IsSome(p.value) THEN <<Unwrap(p.value).device>> ELSE <<>>

OptionToDevice(p, device) ==
    IF IsSome(p.value)
    THEN [p EXCEPT !.value = Some(TensorToDevice(Unwrap(p.value), device))]
    ELSE p

OptionState(p) ==
    IF IsSome(p.value)
    THEN StateData(Serialize(ToData(Unwrap(p.value))))
    ELSE StateNamedNew

\* Variant: a Named state is taken as the absent sentinel and drops the value
OptionLoadClears(p, state) ==
    IF state.kind # "data" THEN [p EXCEPT !.value = None]
    ELSE IF IsSome(p.value)
         THEN [p EXCEPT !.value =
                Some(FromDataDevice(
                        DataFrom(state.data, Len(Unwrap(p.value).shape)),
                        Unwrap(p.value).device, Unwrap(p.value).backend))]
         ELSE p

\* Variant: Data loaded into an absent optional creates the value
OptionLoadRevives(p, state) ==
    IF state.kind # "data" THEN p
    ELSE IF IsSome(p.value)
         THEN [p EXCEPT !.value =
                Some(FromDataDevice(
                        DataFrom(state.data, Len(Unwrap(p.value).shape)),
                        Unwrap(p.value).device, Unwrap(p.value).backend))]
         ELSE [p EXCEPT !.value =
                Some(FromDataDevice(DataFrom(state.data, Len(state.data.shape)),
                                    DefaultDevice, "ad"))]

OptionLoad(p, state) ==
    IF state.kind # "data" THEN p
    ELSE IF IsSome(p.value)
         THEN [p EXCEPT !.value =
                Some(FromDataDevice(
                        DataFrom(state.data, Len(Unwrap(p.value).shape)),
                        Unwrap(p.value).device, Unwrap(p.value).backend))]
         ELSE p

OptionInner(p) ==
    IF IsSome(p.value)
    THEN [p EXCEPT !.value = Some(TensorInner(Unwrap(p.value)))]
    ELSE [p EXCEPT !.value = None]

(* Param<M> *)
ModuleNumParams(p) == DeriveNumParams(p.value)

ModuleUpdateParams(p, grads, opt) ==
    LET r == DeriveUpdateParams(p.value, grads, opt)
    IN  [value |-> [p EXCEPT !.value = r.value], optim |-> r.optim]

ModuleDevices(p) == DeriveDevices(p.value)

ModuleToDevice(p, device) == [p EXCEPT !.value = DeriveToDevice(@, device)]

ModuleState(p) == DeriveState(p.value)

ModuleLoad(p, state) == [p EXCEPT !.value = DeriveLoad(@, state)]

ModuleInner(p) == [p EXCEPT !.value = DeriveInner(@)]

(* Param<Vec<M>> *)
\* Variant: the count is assigned, not accumulated
VecNumParamsAssigned(p) ==
    LET num_params[i \in 0..Len(p.value.vec)] ==
            IF i = 0 THEN 0 ELSE DeriveNumParams(p.value.vec[i])
    IN  num_params[Len(p.value.vec)]

VecNumParams(p) ==
    LET num_params[i \in 0..Len(p.value.vec)] ==
            IF i = 0 THEN 0
            ELSE num_params[i - 1] + DeriveNumParams(p.value.vec[i])
    IN  num_params[Len(p.value.vec)]

\* Variant: the elements are visited last to first
VecUpdateParamsReversed(p, grads, opt) ==
    LET n == Len(p.value.vec)
        st[i \in 0..n] ==
            IF i = 0 THEN [mods |-> <<>>, optim |-> opt]
            ELSE LET r == DeriveUpdateParams(p.value.vec[n + 1 - i], grads,
                                             st[i - 1].optim)
                 IN  [mods  |-> <<r.value>> \o st[i - 1].mods,
                      optim |-> r.optim]
    IN  [value |-> [p EXCEPT !.value = VecOf(st[n].mods)],
         optim |-> st[n].optim]

VecUpdateParams(p, grads, opt) ==
    LET st[i \in 0..Len(p.value.vec)] ==
            IF i = 0 THEN [mods |-> <<>>, optim |-> opt]
            ELSE LET r == DeriveUpdateParams(p.value.vec[i], grads, st[i - 1].optim)
                 IN  [mods  |-> Append(st[i - 1].mods, r.value),
                      optim |-> r.optim]
    IN  [value |-> [p EXCEPT !.value = VecOf(st[Len(p.value.vec)].mods)],
         optim |-> st[Len(p.value.vec)].optim]

VecDevices(p) ==
    LET devices[i \in 0..Len(p.value.vec)] ==
            IF i = 0 THEN <<>>
            ELSE devices[i - 1] \o DeriveDevices(p.value.vec[i])
    IN  devices[Len(p.value.vec)]

\* Variant: the loop stops after the first element it moves
VecToDeviceFirstMoved(p, device) ==
    LET moving == {i \in DOMAIN p.value.vec :
                      DeriveToDevice(p.value.vec[i], device) # p.value.vec[i]}
        first  == IF moving = {} THEN 0
                  ELSE CHOOSE i \in moving : \A j \in moving : i <= j
    IN  [p EXCEPT !.value =
            VecOf([i \in DOMAIN @.vec |->
                    IF i = first THEN DeriveToDevice(@.vec[i], device)
                    ELSE @.vec[i]])]

VecToDevice(p, device) ==
    [p EXCEPT !.value =
        VecOf([i \in DOMAIN @.vec |-> DeriveToDevice(@.vec[i], device)])]

\* Variant: the keys are numbered from one
VecStateOneBased(p) ==
    LET state[i \in 0..Len(p.value.vec)] ==
            IF i = 0 THEN StateNamedNew
            ELSE RegisterState(state[i - 1], ModKey(i),
                               DeriveState(p.value.vec[i]))
    IN  state[Len(p.value.vec)]

VecState(p) ==
    LET state[i \in 0..Len(p.value.vec)] ==
            IF i = 0 THEN StateNamedNew
            ELSE RegisterState(state[i - 1], ModKey(i - 1),
                               DeriveState(p.value.vec[i]))
    IN  state[Len(p.value.vec)]

\* Variant: the keys are numbered from one
VecLoadOneBased(p, state) ==
    [p EXCEPT !.value =
        VecOf([i \in DOMAIN @.vec |->
                DeriveLoad(@.vec[i], StateGet(state, ModKey(i)))])]

VecLoad(p, state) ==
    [p EXCEPT !.value =
        VecOf([i \in DOMAIN @.vec |->
                DeriveLoad(@.vec[i], StateGet(state, ModKey(i - 1)))])]

\* Variant: the elements are collected in reverse
VecInnerReversed(p) ==
    [p EXCEPT !.value =
        VecOf([i \in DOMAIN @.vec |->
                DeriveInner(@.vec[Len(@.vec) + 1 - i])])]

VecInner(p) ==
    [p EXCEPT !.value = VecOf([i \in DOMAIN @.vec |-> DeriveInner(@.vec[i])])]

(* Selection of the implementation by the type of the held value *)
NumParams(p) ==
    CASE p.kind = "tensor" -> TensorNumParams(p)
      [] p.kind = "option" -> OptionNumParams(p)
      [] p.kind = "module" -> ModuleNumParams(p)
      [] p.kind = "vec"    -> VecNumParams(p)

UpdateParams(p, grads, opt) ==
    CASE p.kind = "tensor" -> TensorUpdateParams(p, grads, opt)
      [] p.kind = "option" -> OptionUpdateParams(p, grads, opt)
      [] p.kind = "module" -> ModuleUpdateParams(p, grads, opt)
      [] p.kind = "vec"    -> VecUpdateParams(p, grads, opt)

Devices_(p) ==
    CASE p.kind = "tensor" -> TensorDevices(p)
      [] p.kind = "option" -> OptionDevices(p)
      [] p.kind = "module" -> ModuleDevices(p)
      [] p.kind = "vec"    -> VecDevices(p)

ToDevice(p, device) ==
    CASE p.kind = "tensor" -> TensorParamToDevice(p, device)
      [] p.kind = "option" -> OptionToDevice(p, device)
      [] p.kind = "module" -> ModuleToDevice(p, device)
      [] p.kind = "vec"    -> VecToDevice(p, device)

StateOf(p) ==
    CASE p.kind = "tensor" -> TensorState(p)
      [] p.kind = "option" -> OptionState(p)
      [] p.kind = "module" -> ModuleState(p)
      [] p.kind = "vec"    -> VecState(p)

Load(p, state) ==
    CASE p.kind = "tensor" -> TensorLoad(p, state)
      [] p.kind = "option" -> OptionLoad(p, state)
      [] p.kind = "module" -> ModuleLoad(p, state)
      [] p.kind = "vec"    -> VecLoad(p, state)

Inner(p) ==
    CASE p.kind = "tensor" -> TensorParamInner(p)
      [] p.kind = "option" -> OptionInner(p)
      [] p.kind = "module" -> ModuleInner(p)
      [] p.kind = "vec"    -> VecInner(p)

-----------------------------------------------------------------------------
(* Construction *)

DataAt(k) ==
    LET shape == <<1 + (k % MaxDim), MaxDim>>
    IN  [value |-> Ramp(shape, (k \div MaxDim) % NumVals), shape |-> shape]

NumData == MaxDim * NumVals

MkTensor(k) == FromDataDevice(DataAt(k % NumData), DefaultDevice, "ad")

ParamNew(kind, value) == [kind |-> kind, value |-> value]

Linear(weight, bias) ==
    [kind |-> "struct",
     fields |-> << [name |-> "weight", param |-> ParamNew("tensor", weight)],
                   [name |-> "bias",   param |-> ParamNew("option", bias)] >>]

MkLinear(k, hasBias) ==
    Linear(MkTensor(k), IF hasBias THEN Some(MkTensor(k + 1)) ELSE None)

MkVec(k, flags) ==
    ParamNew("vec",
        VecOf([i \in 1..Len(flags) |-> MkLinear(k + 2 * (i - 1), flags[i])]))

(* A structure nesting a sequence of modules and a module *)
Net(layers, head) ==
    [kind |-> "struct",
     fields |-> << [name |-> "layers", param |-> ParamNew("vec", VecOf(layers))],
                   [name |-> "head",   param |-> ParamNew("module", head)] >>]

MkNet(k, flags) ==
    Net(MkVec(k, flags).value.vec, MkLinear(k + 1, TRUE))

NetFlags == {<<>>, <<TRUE>>, <<FALSE>>}

Seeds == {0, 1}

BiasFlags == UNION {[1..n -> BOOLEAN] : n \in 0..MaxVecLen}

Fresh(k) ==
    {ParamNew("tensor", MkTensor(k)),
     ParamNew("option", Some(MkTensor(k))),
     ParamNew("option", None)}
    \cup {ParamNew("module", MkLinear(k, b)) : b \in BOOLEAN}
    \cup {ParamNew("module", MkNet(k, flags)) : flags \in NetFlags}
    \cup {MkVec(k, flags) : flags \in BiasFlags}

RECURSIVE Peer(_, _)

PeerStruct(m, k) ==
    [m EXCEPT !.fields =
        [j \in DOMAIN @ |-> [@[j] EXCEPT !.param = Peer(@, k + j - 1)]]]

(* A container of the same shape as p, built anew from seed k *)
Peer(p, k) ==
    CASE p.kind = "tensor" -> ParamNew("tensor", MkTensor(k))
      [] p.kind = "option" ->
            ParamNew("option", IF IsSome(p.value) THEN Some(MkTensor(k)) ELSE None)
      [] p.kind = "module" -> ParamNew("module", PeerStruct(p.value, k))
      [] p.kind = "vec" ->
            ParamNew("vec",
                VecOf([i \in DOMAIN p.value.vec |->
                        PeerStruct(p.value.vec[i], k + 2 * (i - 1))]))

DropKey(state, key) ==
    [state EXCEPT !.values = [k \in (DOMAIN @) \ {key} |-> @[k]]]

(* States handed to load: the state of a peer, that state with one key
   removed, and states of another tree shape *)
LoadInputs(p) ==
    LET peers == {Peer(p, k) : k \in Seeds}
        full  == {[tag |-> "state", src |-> q, state |-> StateOf(q)] : q \in peers}
        part  == UNION {
                   IF i.state.kind = "named"
                   THEN {[tag |-> "partial", src |-> i.src,
                          state |-> DropKey(i.state, key)] :
                             key \in DOMAIN i.state.values}
                   ELSE {} : i \in full}
        other == {[tag |-> "other", src |-> p, state |-> s] :
                    s \in {StateNamedNew,
                           StateData(Serialize(DataAt(0))),
                           DeriveState(MkLinear(1, TRUE))}}
    IN  full \cup part \cup other

-----------------------------------------------------------------------------
(* Calls *)

NoParam == [kind |-> "none"]

NoRet == [op |-> "none", value |-> NoParam, of |-> NoParam, fresh |-> FALSE]

NewOptim == [log |-> <<>>]

Call(op, arg, tag, src, opt) ==
    [op |-> op, arg |-> arg, pre |-> c, tag |-> tag, src |-> src, optim |-> opt]

Returned(op, value) == [op |-> op, value |-> value, of |-> c, fresh |-> TRUE]

(* The caller keeps an inner() copy across one later mutating call *)
Keep ==
    IF ret.op = "inner" /\ ret.fresh THEN [ret EXCEPT !.fresh = FALSE] ELSE NoRet

Init ==
    /\ c \in UNION {Fresh(k) : k \in Seeds}
    /\ last = [op |-> "new", arg |-> <<>>, pre |-> c, tag |-> "",
               src |-> NoParam, optim |-> NewOptim]
    /\ ret = NoRet

NumParamsCall ==
    /\ c' = c
    /\ ret' = Returned("num_params", NumParams(c))
    /\ last' = Call("num_params", <<>>, "", NoParam, NewOptim)

DevicesCall ==
    /\ c' = c
    /\ ret' = Returned("devices", Devices_(c))
    /\ last' = Call("devices", <<>>, "", NoParam, NewOptim)

StateCall ==
    /\ c' = c
    /\ ret' = Returned("state", StateOf(c))
    /\ last' = Call("state", <<>>, "", NoParam, NewOptim)

\* Variant: the conversion is done in place on the receiver
InnerCallInPlace ==
    /\ c' = Inner(c)
    /\ ret' = Returned("inner", Inner(c))
    /\ last' = Call("inner", <<>>, "", NoParam, NewOptim)

InnerCall ==
    /\ c' = c
    /\ ret' = Returned("inner", Inner(c))
    /\ last' = Call("inner", <<>>, "", NoParam, NewOptim)

UpdateParamsCall ==
    \E grads \in Gradients :
        LET r == UpdateParams(c, grads, NewOptim)
        IN  /\ c' = r.value
            /\ last' = Call("update_params", grads, "", NoParam, r.optim)
            /\ ret' = Keep

ToDeviceCall ==
    \E device \in Devices :
        /\ c' = ToDevice(c, device)
        /\ last' = Call("to_device", device, "", NoParam, NewOptim)
        /\ ret' = Keep

LoadCall ==
    \E in \in LoadInputs(c) :
        /\ c' = Load(c, in.state)
        /\ last' = Call("load", in.state, in.tag, in.src, NewOptim)
        /\ ret' = Keep

Next ==
    \/ NumParamsCall
    \/ DevicesCall
    \/ StateCall
    \/ InnerCall
    \/ UpdateParamsCall
    \/ ToDeviceCall
    \/ LoadCall

Spec == Init /\ [][Next]_vars

-----------------------------------------------------------------------------
(* Observations used to state the properties *)

NoTensor == [shape |-> <<>>, value |-> <<>>, device |-> "", backend |-> ""]

RECURSIVE LeavesOf(_)

(* The leaves of a structure, fields in declaration order *)
StructLeaves(m) ==
    LET acc[j \in 0..Len(m.fields)] ==
            IF j = 0 THEN <<>> ELSE acc[j - 1] \o LeavesOf(m.fields[j].param)
    IN  acc[Len(m.fields)]

(* The leaf slots of a container, depth first, left to right *)
LeavesOf(p) ==
    CASE p.kind = "tensor" -> <<[present |-> TRUE, tensor |-> p.value]>>
      [] p.kind = "option" ->
            IF p.value.opt = <<>>
            THEN <<[present |-> FALSE, tensor |-> NoTensor]>>
            ELSE <<[present |-> TRUE, tensor |-> p.value.opt[1]]>>
      [] p.kind = "module" -> StructLeaves(p.value)
      [] p.kind = "vec" ->
            LET acc[i \in 0..Len(p.value.vec)] ==
                    IF i = 0 THEN <<>>
                    ELSE acc[i - 1] \o StructLeaves(p.value.vec[i])
            IN  acc[Len(p.value.vec)]

SlotData(slot) ==
    [present |-> slot.present, value |-> slot.tensor.value,
     shape |-> slot.tensor.shape]

LeafData(p) == [i \in DOMAIN LeavesOf(p) |-> SlotData(LeavesOf(p)[i])]

StructData(m) == [i \in DOMAIN StructLeaves(m) |-> SlotData(StructLeaves(m)[i])]

Presence(p) == [i \in DOMAIN LeavesOf(p) |-> LeavesOf(p)[i].present]

IsPresent(slot) == slot.present

PresentLeaves(p) == SelectSeq(LeavesOf(p), IsPresent)

RECURSIVE DimProduct(_)

DimProduct(shape) ==
    IF shape = <<>> THEN 1 ELSE Head(shape) * DimProduct(Tail(shape))

Total(seq) ==
    LET sum[i \in 0..Len(seq)] == IF i = 0 THEN 0 ELSE sum[i - 1] + seq[i]
    IN  sum[Len(seq)]

PositionalKeys(n) == {"mod-" \o ToString(i) : i \in 0..(n - 1)}

ReadOps == {"num_params", "devices", "state", "inner"}

MutatingOps == {"update_params", "to_device", "load"}

IsVec(p, n) == p.kind = "vec" /\ Len(p.value.vec) >= n

HasAbsent(p) == \E i \in DOMAIN LeavesOf(p) : ~LeavesOf(p)[i].present

-----------------------------------------------------------------------------
(* Properties *)

TypeOK == c.kind \in {"tensor", "option", "module", "vec"}

\* C1: round trip. After load of the state() of a container of the same
\* shape, every present leaf of the receiver holds the data of the
\* corresponding leaf of that container and every absent optional is absent.
C1_RoundTrip ==
    (last.op = "load" /\ last.tag = "state")
        => /\ LeafData(c) = LeafData(last.src)
           /\ Presence(c) = Presence(last.pre)

C1_Witness ==
    /\ last.op = "load" /\ last.tag = "state"
    /\ IsVec(c, 2) /\ HasAbsent(c)
    /\ LeafData(c) # LeafData(last.pre)

\* C2: missing-key leniency. After load of a Named state lacking the key of
\* one field (one element), that field (element) is exactly as before the
\* load and every field (element) whose key is present holds the data of
\* its entry.
C2_MissingKey ==
    (last.op = "load" /\ last.tag = "partial")
        => /\ c.kind = last.pre.kind
           /\ c.kind = "vec" =>
                /\ Len(c.value.vec) = Len(last.pre.value.vec)
                /\ \A i \in DOMAIN c.value.vec :
                      IF ("mod-" \o ToString(i - 1)) \in DOMAIN last.arg.values
                      THEN StructData(c.value.vec[i])
                              = StructData(last.src.value.vec[i])
                      ELSE c.value.vec[i] = last.pre.value.vec[i]
           /\ c.kind = "module" =>
                \A j \in DOMAIN c.value.fields :
                    IF c.value.fields[j].name \in DOMAIN last.arg.values
                    THEN LeafData(c.value.fields[j].param)
                            = LeafData(last.src.value.fields[j].param)
                    ELSE c.value.fields[j] = last.pre.value.fields[j]

C2_Witness ==
    /\ last.op = "load" /\ last.tag = "partial"
    /\ IsVec(c, 2)
    /\ "mod-0" \notin DOMAIN last.arg.values
    /\ "mod-1" \in DOMAIN last.arg.values
    /\ c.value.vec[2] # last.pre.value.vec[2]
    /\ StructData(c.value.vec[1]) # StructData(last.src.value.vec[1])

\* C3: shape mismatch at load is a silent no-op. Load of a Named state into
\* a leaf or a present optional leaf, and load of a Leaf state into a module
\* sequence, leave the receiver as it was.
C3_MismatchNoOp ==
    (/\ last.op = "load"
     /\ \/ last.pre.kind = "tensor" /\ last.arg.kind = "named"
        \/ last.pre.kind = "option" /\ last.pre.value.opt # <<>>
                                    /\ last.arg.kind = "named"
        \/ last.pre.kind = "vec" /\ last.arg.kind = "data")
        => c = last.pre

C3_Witness ==
    /\ last.op = "load"
    /\ last.pre.kind = "tensor"
    /\ last.arg.kind = "named"
    /\ DOMAIN last.arg.values # {}

\* C4: presence of an optional leaf is fixed at construction. No call
\* changes which optionals are present, and an absent optional counts 0
\* parameters, has no devices and has the empty Named state.
C4_PresenceFixed ==
    /\ Presence(c) = Presence(last.pre)
    /\ (c.kind = "option" /\ c.value.opt = <<>>)
          => /\ NumParams(c) = 0
             /\ Devices_(c) = <<>>
             /\ StateOf(c) = [kind |-> "named", values |-> <<>>]
    /\ (c.kind = "option" /\ c.value.opt # <<>>)
          => /\ Len(Devices_(c)) = 1
             /\ StateOf(c).kind = "data"

C4_Witness ==
    /\ c.kind = "option" /\ c.value.opt = <<>>
    /\ last.op = "load" /\ last.arg.kind = "data"

\* C5: to_device is idempotent. After to_device(d), a second to_device(d)
\* changes neither the leaf data nor devices(), and to_device on an absent
\* optional changes nothing.
C5_ToDeviceIdempotent ==
    last.op = "to_device"
        => /\ LeafData(ToDevice(c, last.arg)) = LeafData(c)
           /\ Devices_(ToDevice(c, last.arg)) = Devices_(c)
           /\ (last.pre.kind = "option" /\ last.pre.value.opt = <<>>)
                 => c = last.pre

C5_Witness ==
    /\ last.op = "to_device"
    /\ IsVec(c, 2) /\ HasAbsent(c)
    /\ Devices_(c) # Devices_(last.pre)

\* C6: state() of a sequence of length N is a Named node whose keys are
\* exactly mod-0 .. mod-(N-1), entry mod-i being the state of element i;
\* devices() is the concatenation of the elements' devices in order.
C6_VecStateDevices ==
    /\ (last.op = "state" /\ c.kind = "vec")
          => LET n == Len(c.value.vec)
             IN  /\ ret.value.kind = "named"
                 /\ DOMAIN ret.value.values = PositionalKeys(n)
                 /\ Cardinality(DOMAIN ret.value.values) = n
                 /\ \A i \in 1..n :
                       ret.value.values["mod-" \o ToString(i - 1)]
                          = DeriveState(c.value.vec[i])
    /\ (last.op = "devices" /\ c.kind = "vec")
          => LET n == Len(c.value.vec)
                 lens == [i \in 1..n |-> Len(DeriveDevices(c.value.vec[i]))]
                 offset(i) == Total(SubSeq(lens, 1, i - 1))
             IN  /\ Len(ret.value) = Total(lens)
                 /\ \A i \in 1..n : \A k \in 1..lens[i] :
                       ret.value[offset(i) + k] = DeriveDevices(c.value.vec[i])[k]

C6_Witness ==
    /\ last.op = "state" /\ IsVec(c, 2)
    /\ ret.value.values["mod-0"] # ret.value.values["mod-1"]

\* C7: the value returned by inner() has the receiver's num_params(),
\* presence of optionals, sequence length and order, and its data stays as
\* returned whatever is later done to the receiver.
C7_InnerIndependent ==
    ret.op = "inner"
        => /\ NumParams(ret.value) = NumParams(ret.of)
           /\ Presence(ret.value) = Presence(ret.of)
           /\ ret.value.kind = ret.of.kind
           /\ ret.of.kind = "vec"
                 => Len(ret.value.value.vec) = Len(ret.of.value.vec)
           /\ LeafData(ret.value) = LeafData(ret.of)

C7_Witness ==
    /\ ret.op = "inner" /\ ~ret.fresh
    /\ last.op \in MutatingOps
    /\ IsVec(c, 2)
    /\ LeafData(c) # LeafData(ret.of)
    /\ LeafData(ret.value) = LeafData(ret.of)

\* C8: num_params(), devices(), state() and inner() leave the receiver as
\* it was; only update_params, to_device and load change it.
C8_ReadOnly ==
    /\ last.op \in ReadOps => c = last.pre
    /\ c # last.pre => last.op \in MutatingOps

C8_Witness ==
    /\ last.op = "inner" /\ ret.op = "inner" /\ ret.fresh
    /\ IsVec(c, 2)
    /\ c = last.pre
    /\ ret.value # c

\* C9: num_params() is the product of the held tensor's dimensions for a
\* leaf, 0 for an absent optional, the held module's count for a nested
\* module and the sum of the elements' counts for a sequence.
C9_NumParams ==
    /\ c.kind = "tensor" => NumParams(c) = DimProduct(c.value.shape)
    /\ (c.kind = "option" /\ c.value.opt = <<>>) => NumParams(c) = 0
    /\ (c.kind = "option" /\ c.value.opt # <<>>)
          => NumParams(c) = DimProduct(c.value.opt[1].shape)
    /\ c.kind = "module" => NumParams(c) = DeriveNumParams(c.value)
    /\ c.kind = "vec"
          => NumParams(c) =
                Total([i \in DOMAIN c.value.vec |->
                          DeriveNumParams(c.value.vec[i])])
    /\ NumParams(c) =
          Total([i \in DOMAIN PresentLeaves(c) |->
                    DimProduct(PresentLeaves(c)[i].tensor.shape)])

C9_Witness ==
    /\ last.op = "load"
    /\ IsVec(c, 2) /\ HasAbsent(c)
    /\ NumParams(c) # NumParams(last.pre)

\* C10: one update_params call updates the present leaves in traversal
\* order (element 0 first, fields in declaration order), each exactly once,
\* absent optionals never, always with the same gradients.
C10_UpdateOrder ==
    last.op = "update_params"
        => last.optim.log =
              [k \in DOMAIN PresentLeaves(last.pre) |->
                  [tensor |-> PresentLeaves(last.pre)[k].tensor,
                   grads  |-> last.arg]]

C10_Witness ==
    /\ last.op = "update_params"
    /\ IsVec(last.pre, 2) /\ HasAbsent(last.pre)
    /\ Len(last.optim.log) >= 3
    /\ \A i, j \in DOMAIN last.optim.log :
          i # j => last.optim.log[i].tensor # last.optim.log[j].tensor

====
